---- MODULE Spec2Model ----
(***************************************************************************)
(* Domain trust and invite redemption of the KIIAREN workspace backend:    *)
(* convex/domains.ts, convex/inviteLinks.ts and convex/workspaces.ts.      *)
(*                                                                         *)
(* Every Convex mutation runs as one serializable transaction, so each     *)
(* handler is one atomic action over the tables.  Strings are tuples of    *)
(* one-character strings, so that toLowerCase, replace, trim and split are *)
(* computed the way the handlers compute them.                             *)
(***************************************************************************)
EXTENDS Integers, Sequences, FiniteSets, TLC

VARIABLES workspaces, domains, inviteLinks, members, channels, nextId, now

vars == <<workspaces, domains, inviteLinks, members, channels, nextId, now>>

(***************************************************************************)
(* Bounds of the model.                                                    *)
(***************************************************************************)
MaxWorkspaces == 2
MaxDomains == 2
MaxInvites == 1
MaxMembers == 4
MaxTicks == 1

(***************************************************************************)
(* Strings: JavaScript string operations on tuples of characters.          *)
(***************************************************************************)
UpperLetters == <<"A","B","C","D","E","F","G","H","I","J","K","L","M",
                  "N","O","P","Q","R","S","T","U","V","W","X","Y","Z">>
LowerLetters == <<"a","b","c","d","e","f","g","h","i","j","k","l","m",
                  "n","o","p","q","r","s","t","u","v","w","x","y","z">>
Digits == {"0","1","2","3","4","5","6","7","8","9"}
Whitespace == {" ", "\t", "\n"}

Range(f) == {f[i] : i \in DOMAIN f}

IndexOf(c, alphabet) == CHOOSE i \in DOMAIN alphabet : alphabet[i] = c

LowerChar(c) ==
  IF c \in Range(UpperLetters) THEN LowerLetters[IndexOf(c, UpperLetters)] ELSE c

UpperChar(c) ==
  IF c \in Range(LowerLetters) THEN UpperLetters[IndexOf(c, LowerLetters)] ELSE c

toLowerCase(s) == [i \in DOMAIN s |-> LowerChar(s[i])]

toUpperCase(s) == [i \in DOMAIN s |-> UpperChar(s[i])]

\* s.trim(): whitespace removed from both ends only
trim(s) ==
  LET keep == {i \in DOMAIN s : s[i] \notin Whitespace}
  IN  IF keep = {} THEN <<>>
      ELSE SubSeq(s, CHOOSE i \in keep : \A j \in keep : i <= j,
                     CHOOSE i \in keep : \A j \in keep : j <= i)

\* s.replace(/^www\./, ''): one match, anchored at the first character
stripWww(s) ==
  IF Len(s) >= 4 /\ SubSeq(s, 1, 4) = <<"w","w","w",".">>
  THEN SubSeq(s, 5, Len(s))
  ELSE s

\* s.split(sep) for a one-character separator
split(s, sep) ==
  LET at == {i \in DOMAIN s : s[i] = sep}
      n  == Cardinality(at)
      pos(k) == IF k = 0 THEN 0
                ELSE IF k = n + 1 THEN Len(s) + 1
                ELSE CHOOSE i \in at : Cardinality({j \in at : j < i}) = k - 1
  IN  [k \in 1..(n + 1) |-> SubSeq(s, pos(k - 1) + 1, pos(k) - 1)]

(***************************************************************************)
(* convex/domains.ts: normalizeDomain and isValidDomain.                   *)
(***************************************************************************)
normalizeDomain(domain) == trim(stripWww(toLowerCase(domain)))

\* [a-z0-9]([a-z0-9-]*[a-z0-9])?
IsLabel(l) ==
  /\ Len(l) >= 1
  /\ \A i \in DOMAIN l : l[i] \in Range(LowerLetters) \cup Digits \cup {"-"}
  /\ l[1] # "-"
  /\ l[Len(l)] # "-"

\* ^label(\.label)*\.[a-z]{2,}$
isValidDomain(domain) ==
  LET labels == split(domain, ".")
      tld    == labels[Len(labels)]
  IN  /\ Len(labels) >= 2
      /\ \A k \in 1..(Len(labels) - 1) : IsLabel(labels[k])
      /\ Len(tld) >= 2
      /\ \A i \in DOMAIN tld : tld[i] \in Range(LowerLetters)

(***************************************************************************)
(* The users table (authTables) is read, never written, by these handlers. *)
(* email is optional; NoUser is getAuthUserId's null.                      *)
(***************************************************************************)
users == <<
  [name |-> "ann",   email |-> <<"u","@","a",".","i","o">>],
  [name |-> "bob",   email |-> <<"V","@","A",".","I","O">>],
  [name |-> "carol", email |-> <<"x","@","b",".","i","o">>],
  [name |-> "dave"],
  [name |-> "eve",   email |-> <<"y","@","a",".","i","o","@","b",".","i","o">>] >>

UserIds == DOMAIN users
NoUser == 0
Callers == UserIds \cup {NoUser}

(***************************************************************************)
(* convex/lib/tokens.ts: the retry ceiling, and the random source as the   *)
(* sequence of candidates one handler call draws.                          *)
(***************************************************************************)
MAX_COLLISION_RETRIES == 5

\* let token: string | null = null, tested with !token
NoToken == <<>>

\* the candidates one call draws: the first is the pool's first token, and every
\* retry repeats one draw from the pool
Draws(pool) ==
  {[i \in 1..MAX_COLLISION_RETRIES |-> IF i = 1 THEN pool[1] ELSE pool[b]] :
     b \in DOMAIN pool}

\* the first candidate taken without the lookup
FirstCandidate(cands, taken, none) == cands[1]

\* the retry loop giving up one attempt early
FirstFreeOfFour(cands, taken, none) ==
  LET free == {i \in 1..(MAX_COLLISION_RETRIES - 1) : cands[i] \notin taken}
  IN  IF free = {} THEN none
      ELSE cands[CHOOSE i \in free : \A j \in free : i <= j]

\* for (attempt < MAX_COLLISION_RETRIES) { if (!existing) { token = candidate; break; } }
FirstFree(cands, taken, none) ==
  LET free == {i \in 1..MAX_COLLISION_RETRIES : cands[i] \notin taken}
  IN  IF free = {} THEN none
      ELSE cands[CHOOSE i \in free : \A j \in free : i <= j]


\* const JOIN_CODE_ALPHABET = 'ABCDEFGHJKMNPQRSTUVWXYZ023456789'
JOIN_CODE_ALPHABET ==
  <<"A","B","C","D","E","F","G","H","J","K","M","N","P","Q","R","S",
    "T","U","V","W","X","Y","Z","0","2","3","4","5","6","7","8","9">>

\* a & b on non-negative integers, bit by bit
RECURSIVE BitAnd(_, _)
BitAnd(a, b) ==
  IF a = 0 \/ b = 0 THEN 0
  ELSE (a % 2) * (b % 2) + 2 * BitAnd(a \div 2, b \div 2)

\* str[index] of a string: undefined outside 0..length-1
undefined == <<"u","n","d","e","f","i","n","e","d">>
CharAt(str, index) ==
  IF index + 1 \in DOMAIN str THEN <<str[index + 1]>> ELSE undefined

\* the mask keeping six bits instead of five
JoinCodeCharSixBits(randomByte) == CharAt(JOIN_CODE_ALPHABET, BitAnd(randomByte, 63))

\* const index = randomByte & 0x1f; return JOIN_CODE_ALPHABET[index]
joinCodeCharFromByte(randomByte) == CharAt(JOIN_CODE_ALPHABET, BitAnd(randomByte, 31))

codeLength == 6

\* for (i < codeLength) code += joinCodeCharFromByte(bytes[i]), on the bytes that
\* randomBytes(codeLength) returned
RECURSIVE JoinCodeFrom(_, _)
JoinCodeFrom(bytes, i) ==
  IF i > codeLength THEN <<>>
  ELSE joinCodeCharFromByte(bytes[i]) \o JoinCodeFrom(bytes, i + 1)

generateJoinCode(bytes) == JoinCodeFrom(bytes, 1)

\* two results of randomBytes(6), giving the join codes A3KM7P and B2CD4E
JoinCodeBytes == << <<0, 57, 73, 138, 253, 12>>, <<225, 24, 2, 35, 26, 4>> >>

JoinCodes == <<generateJoinCode(JoinCodeBytes[1]), generateJoinCode(JoinCodeBytes[2])>>

\* the token utilities' other copy: const JOIN_CODE_ALPHABET =
\* 'ABCDEFGHJKMNPQRSTUVWXYZ23456789', with its joinCodeCharFromByte and
\* generateJoinCode
JOIN_CODE_ALPHABET_WITHOUT_ZERO ==
  <<"A","B","C","D","E","F","G","H","J","K","M","N","P","Q","R","S",
    "T","U","V","W","X","Y","Z","2","3","4","5","6","7","8","9">>

joinCodeCharFromByteWithoutZero(randomByte) ==
  CharAt(JOIN_CODE_ALPHABET_WITHOUT_ZERO, BitAnd(randomByte, 31))

RECURSIVE JoinCodeWithoutZeroFrom(_, _)
JoinCodeWithoutZeroFrom(bytes, i) ==
  IF i > codeLength THEN <<>>
  ELSE joinCodeCharFromByteWithoutZero(bytes[i]) \o JoinCodeWithoutZeroFrom(bytes, i + 1)

generateJoinCodeWithoutZero(bytes) == JoinCodeWithoutZeroFrom(bytes, 1)

\* const BASE64_CHARS = 'ABC...XYZabc...xyz0123456789+/'
BASE64_CHARS ==
  <<"A","B","C","D","E","F","G","H","I","J","K","L","M","N","O","P","Q","R","S","T",
    "U","V","W","X","Y","Z","a","b","c","d","e","f","g","h","i","j","k","l","m","n",
    "o","p","q","r","s","t","u","v","w","x","y","z","0","1","2","3","4","5","6","7",
    "8","9","+","/">>

\* a | b on non-negative integers, bit by bit
RECURSIVE BitOr(_, _)
BitOr(a, b) ==
  IF a = 0 THEN b
  ELSE IF b = 0 THEN a
  ELSE (IF a % 2 = 1 \/ b % 2 = 1 THEN 1 ELSE 0) + 2 * BitOr(a \div 2, b \div 2)

\* a >> k and a << k, on operands of at most 8 bits and k <= 6
ShiftRight(a, k) == a \div (2 ^ k)
ShiftLeft(a, k) == a * (2 ^ k)

\* the fallback encoder without the mask on the second character's index
RECURSIVE Base64EncodeBytesUnmasked(_, _)
Base64EncodeBytesUnmasked(bytes, i) ==
  LET len == Len(bytes)
      b0  == bytes[i + 1]
      b1  == IF i + 1 < len THEN bytes[i + 2] ELSE 0
      b2  == IF i + 2 < len THEN bytes[i + 3] ELSE 0
  IN  IF ~(i < len) THEN <<>>
      ELSE CharAt(BASE64_CHARS, BitAnd(ShiftRight(b0, 2), 63))
           \o CharAt(BASE64_CHARS, BitOr(ShiftLeft(b0, 4), ShiftRight(b1, 4)))
           \o (IF i + 1 < len
                THEN CharAt(BASE64_CHARS, BitAnd(BitOr(ShiftLeft(b1, 2), ShiftRight(b2, 6)), 63))
                ELSE <<"=">>)
           \o (IF i + 2 < len THEN CharAt(BASE64_CHARS, BitAnd(b2, 63)) ELSE <<"=">>)
           \o Base64EncodeBytesUnmasked(bytes, i + 3)

\* base64EncodeBytes: for (i = 0; i < len; i += 3), four characters per three
\* bytes; i is the 0-based loop index
RECURSIVE base64EncodeBytes(_, _)
base64EncodeBytes(bytes, i) ==
  LET len == Len(bytes)
      b0  == bytes[i + 1]
      b1  == IF i + 1 < len THEN bytes[i + 2] ELSE 0
      b2  == IF i + 2 < len THEN bytes[i + 3] ELSE 0
  IN  IF ~(i < len) THEN <<>>
      ELSE CharAt(BASE64_CHARS, BitAnd(ShiftRight(b0, 2), 63))
           \o CharAt(BASE64_CHARS, BitAnd(BitOr(ShiftLeft(b0, 4), ShiftRight(b1, 4)), 63))
           \o (IF i + 1 < len
                THEN CharAt(BASE64_CHARS, BitAnd(BitOr(ShiftLeft(b1, 2), ShiftRight(b2, 6)), 63))
                ELSE <<"=">>)
           \o (IF i + 2 < len THEN CharAt(BASE64_CHARS, BitAnd(b2, 63)) ELSE <<"=">>)
           \o base64EncodeBytes(bytes, i + 3)

\* Buffer.from(bytes).toString('base64'): standard base64, each group of three
\* bytes read as one 24-bit number and cut into four 6-bit digits, a last group
\* of one or two bytes zero-filled to 12 or 18 bits and padded with '='
RECURSIVE BufferToBase64(_)
BufferToBase64(bytes) ==
  LET Digit(n, k) == <<BASE64_CHARS[((n \div (64 ^ k)) % 64) + 1]>>
  IN  IF Len(bytes) = 0 THEN <<>>
      ELSE IF Len(bytes) = 1
        THEN LET n == bytes[1] * 16
             IN  Digit(n, 1) \o Digit(n, 0) \o <<"=", "=">>
      ELSE IF Len(bytes) = 2
        THEN LET n == (bytes[1] * 256 + bytes[2]) * 4
             IN  Digit(n, 2) \o Digit(n, 1) \o Digit(n, 0) \o <<"=">>
      ELSE LET n == bytes[1] * 65536 + bytes[2] * 256 + bytes[3]
           IN  Digit(n, 3) \o Digit(n, 2) \o Digit(n, 1) \o Digit(n, 0)
               \o BufferToBase64(SubSeq(bytes, 4, Len(bytes)))

\* .replace(/\+/g, '-').replace(/\//g, '_').replace(/=/g, '')
RECURSIVE UrlSafe(_)
UrlSafe(base64) ==
  IF base64 = <<>> THEN <<>>
  ELSE LET c == Head(base64)
       IN  (IF c = "+" THEN <<"-">>
            ELSE IF c = "/" THEN <<"_">>
            ELSE IF c = "=" THEN <<>>
            ELSE <<c>>) \o UrlSafe(Tail(base64))

\* base64urlEncode; hasBuffer is typeof Buffer !== 'undefined' in the runtime
base64urlEncode(bytes, hasBuffer) ==
  UrlSafe(IF hasBuffer THEN BufferToBase64(bytes) ELSE base64EncodeBytes(bytes, 0))

\* generateVerificationToken, on the bytes randomBytes(24) returned
generateVerificationToken(bytes, hasBuffer) == base64urlEncode(bytes, hasBuffer)

\* generateInviteCode, on the bytes randomBytes(16) returned
generateInviteCode(bytes, hasBuffer) == base64urlEncode(bytes, hasBuffer)

\* results of randomBytes(n): byte k of sequence b is b + 37k mod 256, and the
\* sequences of one repeated byte
RandomBytes(n, b) == [k \in 1..n |-> (b + 37 * k) % 256]

VerificationTokenBytes ==
  <<RandomBytes(24, 251), [k \in 1..24 |-> 251]>>
InviteCodeBytes ==
  <<RandomBytes(16, 251), [k \in 1..16 |-> 251]>>

VerificationTokens ==
  <<generateVerificationToken(VerificationTokenBytes[1], FALSE),
    generateVerificationToken(VerificationTokenBytes[2], TRUE)>>
InviteCodes ==
  <<generateInviteCode(InviteCodeBytes[1], FALSE),
    generateInviteCode(InviteCodeBytes[2], TRUE)>>
NoJoinCode == <<>>

(***************************************************************************)
(* Documents: a table is a function from ids to records; an optional field *)
(* that is unset is absent from the record.                                *)
(***************************************************************************)
Has(doc, field) == field \in DOMAIN doc

\* ctx.db.insert
Insert(table, id, doc) == [i \in DOMAIN table \cup {id} |-> IF i = id THEN doc ELSE table[i]]

\* ctx.db.delete
Delete(table, id) == [i \in DOMAIN table \ {id} |-> table[i]]

\* ctx.db.patch: fields of p are written, fields named in unset are removed
PatchDoc(doc, p, unset) ==
  [f \in (DOMAIN doc \cup DOMAIN p) \ unset |-> IF f \in DOMAIN p THEN p[f] ELSE doc[f]]

Patch(table, id, p, unset) == [table EXCEPT ![id] = PatchDoc(table[id], p, unset)]

Bump(table) == [nextId EXCEPT ![table] = @ + 1]

\* the first row of a query, in creation order
First(ids) == CHOOSE i \in ids : \A j \in ids : i <= j

(***************************************************************************)
(* convex/lib/access_control.ts (section 4.5 of the specification).        *)
(***************************************************************************)
Ok == "ok"

MemberRows(userId, workspaceId) ==
  {m \in DOMAIN members :
     members[m].userId = userId /\ members[m].workspaceId = workspaceId}

requireAuth(userId) == IF userId = NoUser THEN "Unauthorized" ELSE Ok

requireWorkspaceAdmin(userId, workspaceId) ==
  IF userId = NoUser THEN "Unauthorized"
  ELSE IF \E m \in MemberRows(userId, workspaceId) : members[m].role = "admin"
       THEN Ok
       ELSE "Not an admin"

(***************************************************************************)
(* What a handler call does: it throws, and the transaction leaves every   *)
(* table as it was, or it returns a value and commits its writes.  writes  *)
(* names the tables the call wrote, each with its new contents.            *)
(***************************************************************************)
Throw(error) == [ok |-> FALSE, error |-> error]

Return(value, writes) == [ok |-> TRUE, value |-> value, writes |-> writes]

Written(outcome, table, current) ==
  IF Has(outcome.writes, table) THEN outcome.writes[table] ELSE current

\* a call that returns commits its writes; a thrown call changes nothing
Commit(outcome) ==
  /\ outcome.ok
  /\ workspaces'  = Written(outcome, "workspaces", workspaces)
  /\ domains'     = Written(outcome, "domains", domains)
  /\ inviteLinks' = Written(outcome, "inviteLinks", inviteLinks)
  /\ members'     = Written(outcome, "members", members)
  /\ channels'    = Written(outcome, "channels", channels)
  /\ nextId'      = Written(outcome, "nextId", nextId)
  /\ nextId'.workspaces  <= MaxWorkspaces + 1
  /\ nextId'.domains     <= MaxDomains + 1
  /\ nextId'.inviteLinks <= MaxInvites + 1
  /\ nextId'.members     <= MaxMembers + 1
  /\ UNCHANGED now

(***************************************************************************)
(* convex/domains.ts                                                       *)
(***************************************************************************)
VerifiedDomains(workspaceId) ==
  {d \in DOMAIN domains :
     domains[d].workspaceId = workspaceId /\ domains[d].status = "verified"}

\* the by_domain lookup answering only for rows that are already verified
ByDomainVerifiedOnly(domain) ==
  {d \in DOMAIN domains : domains[d].domain = domain /\ domains[d].status = "verified"}

\* withIndex('by_domain', q => q.eq('domain', domain))
ByDomain(domain) == {d \in DOMAIN domains : domains[d].domain = domain}

addDomain(userId, workspaceId, rawDomain, draws) ==
  LET guard    == requireWorkspaceAdmin(userId, workspaceId)
      domain   == normalizeDomain(rawDomain)
      existing == ByDomain(domain)
      token    == FirstFree(draws,
                            {domains[d].verificationToken : d \in DOMAIN domains},
                            NoToken)
      domainId == nextId.domains
  IN  IF guard # Ok THEN Throw(guard)
      ELSE IF ~isValidDomain(domain) THEN Throw("Invalid domain format")
      ELSE IF existing # {}
        THEN IF domains[First(existing)].workspaceId = workspaceId
             THEN Throw("already added to this workspace")
             ELSE Throw("already claimed by another workspace")
      ELSE IF token = NoToken THEN Throw("TokenCollisionError")
      ELSE Return(domainId,
                  [domains |-> Insert(domains, domainId,
                                      [workspaceId |-> workspaceId,
                                       domain |-> domain,
                                       verificationToken |-> token,
                                       status |-> "pending",
                                       createdAt |-> now,
                                       createdBy |-> userId]),
                   nextId |-> Bump("domains")])

\* the rows listDomains returns to an admin
listDomains(userId, workspaceId) ==
  LET guard == requireWorkspaceAdmin(userId, workspaceId)
  IN  IF guard # Ok THEN Throw(guard)
      ELSE Return({PatchDoc([id |-> d], domains[d], {"workspaceId", "createdBy"}) :
                     d \in {x \in DOMAIN domains : domains[x].workspaceId = workspaceId}},
                  <<>>)

\* removeDomain reverting the flags whatever remains
RemoveDomainAlwaysReverts(userId, domainId) ==
  IF domainId \notin DOMAIN domains THEN Throw("Domain not found.")
  ELSE LET domain == domains[domainId]
           guard  == requireWorkspaceAdmin(userId, domain.workspaceId)
       IN  IF guard # Ok THEN Throw(guard)
           ELSE Return([success |-> TRUE],
                       [domains |-> Delete(domains, domainId),
                        workspaces |-> Patch(workspaces, domain.workspaceId,
                                             [domainVerified |-> FALSE,
                                              joinCodeEnabled |-> TRUE], {})])

\* removeDomain counting the verified rows before the delete
RemoveDomainCountsBeforeDelete(userId, domainId) ==
  IF domainId \notin DOMAIN domains THEN Throw("Domain not found.")
  ELSE LET domain == domains[domainId]
           guard  == requireWorkspaceAdmin(userId, domain.workspaceId)
       IN  IF guard # Ok THEN Throw(guard)
           ELSE IF VerifiedDomains(domain.workspaceId) = {}
             THEN Return([success |-> TRUE],
                         [domains |-> Delete(domains, domainId),
                          workspaces |-> Patch(workspaces, domain.workspaceId,
                                               [domainVerified |-> FALSE,
                                                joinCodeEnabled |-> TRUE], {})])
             ELSE Return([success |-> TRUE], [domains |-> Delete(domains, domainId)])

\* removeDomain reverting the flags whenever the removed row was verified
RemoveDomainRevertsForVerifiedRow(userId, domainId) ==
  IF domainId \notin DOMAIN domains THEN Throw("Domain not found.")
  ELSE LET domain == domains[domainId]
           guard  == requireWorkspaceAdmin(userId, domain.workspaceId)
           after  == Delete(domains, domainId)
       IN  IF guard # Ok THEN Throw(guard)
           ELSE IF domain.status = "verified"
             THEN Return([success |-> TRUE],
                         [domains |-> after,
                          workspaces |-> Patch(workspaces, domain.workspaceId,
                                               [domainVerified |-> FALSE,
                                                joinCodeEnabled |-> TRUE], {})])
             ELSE Return([success |-> TRUE], [domains |-> after])

\* removeDomain reverting domainVerified alone
RemoveDomainRevertsVerifiedOnly(userId, domainId) ==
  IF domainId \notin DOMAIN domains THEN Throw("Domain not found.")
  ELSE LET domain == domains[domainId]
           guard  == requireWorkspaceAdmin(userId, domain.workspaceId)
           after  == Delete(domains, domainId)
           remainingVerified ==
             {d \in DOMAIN after :
                after[d].workspaceId = domain.workspaceId /\ after[d].status = "verified"}
       IN  IF guard # Ok THEN Throw(guard)
           ELSE IF remainingVerified = {}
             THEN Return([success |-> TRUE],
                         [domains |-> after,
                          workspaces |-> Patch(workspaces, domain.workspaceId,
                                               [domainVerified |-> FALSE], {})])
             ELSE Return([success |-> TRUE], [domains |-> after])

removeDomain(userId, domainId) ==
  IF domainId \notin DOMAIN domains THEN Throw("Domain not found.")
  ELSE LET domain == domains[domainId]
           guard  == requireWorkspaceAdmin(userId, domain.workspaceId)
           after  == Delete(domains, domainId)
           remainingVerified ==
             {d \in DOMAIN after :
                after[d].workspaceId = domain.workspaceId /\ after[d].status = "verified"}
       IN  IF guard # Ok THEN Throw(guard)
           ELSE IF remainingVerified = {}
             THEN Return([success |-> TRUE],
                         [domains |-> after,
                          workspaces |-> Patch(workspaces, domain.workspaceId,
                                               [domainVerified |-> FALSE,
                                                joinCodeEnabled |-> TRUE], {})])
             ELSE Return([success |-> TRUE], [domains |-> after])

\* updateStatus patching the Domain row only
UpdateStatusDomainOnly(domainId, status, verifiedAt) ==
  IF domainId \notin DOMAIN domains THEN Throw("Domain not found.")
  ELSE Return([success |-> TRUE],
              [domains |-> Patch(domains, domainId, [status |-> status] @@ verifiedAt,
                                 {"verifiedAt"} \ DOMAIN verifiedAt)])

\* internalMutation: no caller identity; verifiedAt is [verifiedAt |-> t] or unset
updateStatus(domainId, status, verifiedAt) ==
  IF domainId \notin DOMAIN domains THEN Throw("Domain not found.")
  ELSE LET patched == Patch(domains, domainId, [status |-> status] @@ verifiedAt,
                            {"verifiedAt"} \ DOMAIN verifiedAt)
       IN  IF status = "verified"
           THEN Return([success |-> TRUE],
                       [domains |-> patched,
                        workspaces |-> Patch(workspaces, domains[domainId].workspaceId,
                                             [domainVerified |-> TRUE,
                                              joinCodeEnabled |-> FALSE], {})])
           ELSE Return([success |-> TRUE], [domains |-> patched])

\* public query
checkEmailDomain(workspaceId, email) ==
  LET emailParts == split(toLowerCase(email), "@")
  IN  IF Len(emailParts) # 2 THEN [matches |-> FALSE]
      ELSE LET hit == {d \in VerifiedDomains(workspaceId) : domains[d].domain = emailParts[2]}
           IN  IF hit # {} THEN [matches |-> TRUE, domain |-> domains[First(hit)].domain]
               ELSE [matches |-> FALSE]

(***************************************************************************)
(* convex/inviteLinks.ts                                                   *)
(*                                                                         *)
(* maxUses is v.number(), a float64: the model carries it in halves, so    *)
(* 3 stands for 1.5.  usedCount only ever counts whole redemptions.        *)
(***************************************************************************)
HOUR_MS == 3600000

\* v.number() admits every float64; NaN, the one value that no comparison
\* orders, is written as a number below every other value of the model
NaN == 0 - 1

\* a < b, a > b, a * b and a + b of JavaScript numbers
LessThan(a, b) == a # NaN /\ b # NaN /\ a < b
GreaterThan(a, b) == a # NaN /\ b # NaN /\ a > b
Times(a, b) == IF a = NaN \/ b = NaN THEN NaN ELSE a * b
Plus(a, b) == IF a = NaN \/ b = NaN THEN NaN ELSE a + b

Halves(n) == 2 * n

\* if (invite.maxUses && invite.usedCount >= invite.maxUses)
Exhausted(invite) ==
  /\ Has(invite, "maxUses")
  /\ invite.maxUses # 0
  /\ Halves(invite.usedCount) >= invite.maxUses

\* if (invite.revokedAt)
Revoked(invite) == Has(invite, "revokedAt") /\ invite.revokedAt # 0

\* if (invite.expiresAt < Date.now())
Expired(invite) == LessThan(invite.expiresAt, now)

ByCode(code) == {i \in DOMAIN inviteLinks : inviteLinks[i].code = code}

inviteCreate(userId, args, draws) ==
  LET guard == requireWorkspaceAdmin(userId, args.workspaceId)
      code  == FirstFree(draws, {inviteLinks[i].code : i \in DOMAIN inviteLinks}, NoToken)
      inviteLinkId == nextId.inviteLinks
      maxUses == IF Has(args, "maxUses") THEN [maxUses |-> args.maxUses] ELSE <<>>
  IN  IF guard # Ok THEN Throw(guard)
      ELSE IF LessThan(args.expiresInHours, 1) \/ GreaterThan(args.expiresInHours, 720)
        THEN Throw("Expiry must be between 1 and 720 hours (30 days).")
      ELSE IF Has(args, "maxUses") /\ args.maxUses < Halves(1)
        THEN Throw("Max uses must be at least 1.")
      ELSE IF /\ args.scope.type = "channel"
              /\ \/ args.scope.channelId \notin DOMAIN channels
                 \/ channels[args.scope.channelId].workspaceId # args.workspaceId
        THEN Throw("Channel not found in this workspace.")
      ELSE IF code = NoToken THEN Throw("TokenCollisionError")
      ELSE Return([id |-> inviteLinkId, code |-> code],
                  [inviteLinks |->
                     Insert(inviteLinks, inviteLinkId,
                            [workspaceId |-> args.workspaceId,
                             code |-> code,
                             createdBy |-> userId,
                             createdAt |-> now,
                             expiresAt |-> Plus(now, Times(args.expiresInHours, 60 * 60 * 1000)),
                             usedCount |-> 0,
                             scope |-> args.scope] @@ maxUses),
                   nextId |-> Bump("inviteLinks")])

\* revoke without the already-revoked check: a second call stamps revokedAt anew
RevokeAgain(userId, inviteLinkId) ==
  IF inviteLinkId \notin DOMAIN inviteLinks THEN Throw("Invite link not found.")
  ELSE LET guard == requireWorkspaceAdmin(userId, inviteLinks[inviteLinkId].workspaceId)
       IN  IF guard # Ok THEN Throw(guard)
           ELSE Return([success |-> TRUE],
                       [inviteLinks |-> Patch(inviteLinks, inviteLinkId,
                                              [revokedAt |-> now], {})])

revoke(userId, inviteLinkId) ==
  IF inviteLinkId \notin DOMAIN inviteLinks THEN Throw("Invite link not found.")
  ELSE LET invite == inviteLinks[inviteLinkId]
           guard  == requireWorkspaceAdmin(userId, invite.workspaceId)
       IN  IF guard # Ok THEN Throw(guard)
           ELSE IF Revoked(invite) THEN Throw("Invite link is already revoked.")
           ELSE Return([success |-> TRUE],
                       [inviteLinks |-> Patch(inviteLinks, inviteLinkId,
                                              [revokedAt |-> now], {})])

\* a query's null result
null == [null |-> TRUE]

\* getByCode as its doc comment has it: null if not found, expired, or revoked
GetByCodeIgnoringMaxUses(code) ==
  IF ByCode(code) = {} THEN null
  ELSE LET invite == inviteLinks[First(ByCode(code))]
       IN  IF Expired(invite) THEN null
           ELSE IF Revoked(invite) THEN null
           ELSE IF invite.workspaceId \notin DOMAIN workspaces THEN null
           ELSE [id |-> First(ByCode(code)),
                 workspaceId |-> invite.workspaceId,
                 workspaceName |-> workspaces[invite.workspaceId].name,
                 expiresAt |-> invite.expiresAt,
                 scope |-> invite.scope]

\* public query; Date.now() is the clock of the call
getByCode(code) ==
  IF ByCode(code) = {} THEN null
  ELSE LET invite == inviteLinks[First(ByCode(code))]
       IN  IF Expired(invite) THEN null
           ELSE IF Revoked(invite) THEN null
           ELSE IF Exhausted(invite) THEN null
           ELSE IF invite.workspaceId \notin DOMAIN workspaces THEN null
           ELSE [id |-> First(ByCode(code)),
                 workspaceId |-> invite.workspaceId,
                 workspaceName |-> workspaces[invite.workspaceId].name,
                 expiresAt |-> invite.expiresAt,
                 scope |-> invite.scope]

validateForRedemption(code) ==
  IF ByCode(code) = {} THEN [valid |-> FALSE, error |-> "Invite link not found."]
  ELSE LET invite == inviteLinks[First(ByCode(code))]
       IN  IF Expired(invite) THEN [valid |-> FALSE, error |-> "Invite link has expired."]
           ELSE IF Revoked(invite)
             THEN [valid |-> FALSE, error |-> "Invite link has been revoked."]
           ELSE IF Exhausted(invite)
             THEN [valid |-> FALSE, error |-> "Invite link has reached maximum uses."]
           ELSE IF invite.workspaceId \notin DOMAIN workspaces
             THEN [valid |-> FALSE, error |-> "Workspace not found."]
           ELSE [valid |-> TRUE,
                 workspaceId |-> invite.workspaceId,
                 workspaceName |-> workspaces[invite.workspaceId].name,
                 scope |-> invite.scope]

(***************************************************************************)
(* convex/workspaces.ts                                                    *)
(***************************************************************************)
\* if (!args.joinCode), if (!args.inviteCode): unset, or the empty string
Supplied(args, field, empty) == Has(args, field) /\ args[field] # empty

\* the email domain read without lowercasing the address
JoinEmailDomainCaseSensitive(user) ==
  IF Has(user, "email") /\ user.email # <<>>
  THEN LET parts == split(user.email, "@")
       IN  IF Len(parts) >= 2 THEN parts[2] ELSE <<>>
  ELSE <<>>

\* userEmail.toLowerCase().split('@')[1], when it is a non-empty string
JoinEmailDomain(user) ==
  IF Has(user, "email") /\ user.email # <<>>
  THEN LET parts == split(toLowerCase(user.email), "@")
       IN  IF Len(parts) >= 2 THEN parts[2] ELSE <<>>
  ELSE <<>>

\* the verified Domain rows that let this user auto-join
AutoJoinDomains(user, workspaceId) ==
  IF JoinEmailDomain(user) = <<>> THEN {}
  ELSE {d \in VerifiedDomains(workspaceId) : domains[d].domain = JoinEmailDomain(user)}

\* ctx.db.insert('members', { userId, workspaceId, role })
InsertMember(userId, workspaceId, role) ==
  Insert(members, nextId.members,
         [userId |-> userId, workspaceId |-> workspaceId, role |-> role])

\* join without the existingMember check
NeverAlreadyMember(userId, workspaceId) == FALSE

\* the existingMember check seeing admins only
AlreadyAdmin(userId, workspaceId) ==
  \E m \in MemberRows(userId, workspaceId) : members[m].role = "admin"

\* existingMember
AlreadyMember(userId, workspaceId) == MemberRows(userId, workspaceId) # {}

\* workspace.domainVerified ?? false
DomainVerified(workspace) == Has(workspace, "domainVerified") /\ workspace.domainVerified

\* workspace.joinCodeEnabled ?? true
JoinCodeEnabled(workspace) == Has(workspace, "joinCodeEnabled") => workspace.joinCodeEnabled

\* the join code compared as typed
JoinCodeMismatchExact(workspace, joinCode) == workspace.joinCode # joinCode

\* workspace.joinCode.toUpperCase() !== args.joinCode.toUpperCase()
JoinCodeMismatch(workspace, joinCode) ==
  toUpperCase(workspace.joinCode) # toUpperCase(joinCode)

\* the legacy path of join, taken when the workspace is not domain-verified
joinByCode(userId, args) ==
  LET workspace == workspaces[args.workspaceId]
  IN  IF ~JoinCodeEnabled(workspace)
        THEN Throw("Join codes are disabled for this workspace.")
      ELSE IF ~Supplied(args, "joinCode", <<>>) THEN Throw("Join code is required.")
      ELSE IF JoinCodeMismatch(workspace, args.joinCode) THEN Throw("Invalid join code.")
      ELSE Return([workspaceId |-> args.workspaceId],
                  [members |-> InsertMember(userId, args.workspaceId, "member"),
                   nextId |-> Bump("members")])

\* the invite path of join, taken when auto-join does not apply
joinByInvite(userId, args) ==
  IF ~Supplied(args, "inviteCode", "")
    THEN Throw("This workspace requires an invite link to join. Contact a workspace admin to get an invite.")
  ELSE IF ByCode(args.inviteCode) = {} THEN Throw("Invalid invite link.")
  ELSE LET inviteId == First(ByCode(args.inviteCode))
           invite   == inviteLinks[inviteId]
       IN  IF invite.workspaceId # args.workspaceId
             THEN Throw("Invalid invite link for this workspace.")
           ELSE IF Expired(invite) THEN Throw("Invite link has expired.")
           ELSE IF Revoked(invite) THEN Throw("Invite link has been revoked.")
           ELSE IF Exhausted(invite) THEN Throw("Invite link has reached maximum uses.")
           ELSE Return([workspaceId |-> args.workspaceId],
                       [inviteLinks |-> Patch(inviteLinks, inviteId,
                                              [usedCount |-> invite.usedCount + 1], {}),
                        members |-> InsertMember(userId, args.workspaceId, "member"),
                        nextId |-> Bump("members")])

join(userId, args) ==
  IF userId = NoUser THEN Throw("Unauthorized.")
  ELSE IF userId \notin DOMAIN users THEN Throw("User not found.")
  ELSE IF args.workspaceId \notin DOMAIN workspaces THEN Throw("Workspace not found.")
  ELSE IF AlreadyMember(userId, args.workspaceId)
    THEN Throw("Already a member of this workspace.")
  ELSE IF DomainVerified(workspaces[args.workspaceId])
    THEN IF AutoJoinDomains(users[userId], args.workspaceId) # {}
         THEN Return([workspaceId |-> args.workspaceId],
                     [members |-> InsertMember(userId, args.workspaceId, "member"),
                      nextId |-> Bump("members")])
         ELSE joinByInvite(userId, args)
  ELSE joinByCode(userId, args)

TakenJoinCodes == {workspaces[w].joinCode : w \in DOMAIN workspaces}

\* newJoinCode switching the join-code path back on with the new code
NewJoinCodeReenables(userId, workspaceId, draws) ==
  LET joinCode == FirstFree(draws, TakenJoinCodes, NoJoinCode)
  IN  IF userId = NoUser THEN Throw("Unauthorized.")
      ELSE IF ~\E m \in MemberRows(userId, workspaceId) : members[m].role = "admin"
        THEN Throw("Unauthorized.")
      ELSE IF joinCode = NoJoinCode THEN Throw("TokenCollisionError")
      ELSE Return([workspaceId |-> workspaceId],
                  [workspaces |-> Patch(workspaces, workspaceId,
                                        [joinCode |-> joinCode, joinCodeEnabled |-> TRUE],
                                        {})])

\* newJoinCode testing membership without the role
NewJoinCodeAnyMember(userId, workspaceId, draws) ==
  LET joinCode == FirstFree(draws, TakenJoinCodes, NoJoinCode)
  IN  IF userId = NoUser THEN Throw("Unauthorized.")
      ELSE IF MemberRows(userId, workspaceId) = {} THEN Throw("Unauthorized.")
      ELSE IF joinCode = NoJoinCode THEN Throw("TokenCollisionError")
      ELSE Return([workspaceId |-> workspaceId],
                  [workspaces |-> Patch(workspaces, workspaceId,
                                        [joinCode |-> joinCode], {})])

newJoinCode(userId, workspaceId, draws) ==
  LET joinCode == FirstFree(draws, TakenJoinCodes, NoJoinCode)
  IN  IF userId = NoUser THEN Throw("Unauthorized.")
      ELSE IF ~\E m \in MemberRows(userId, workspaceId) : members[m].role = "admin"
        THEN Throw("Unauthorized.")
      ELSE IF joinCode = NoJoinCode THEN Throw("TokenCollisionError")
      ELSE Return([workspaceId |-> workspaceId],
                  [workspaces |-> Patch(workspaces, workspaceId,
                                        [joinCode |-> joinCode], {})])

create(userId, name, draws) ==
  LET joinCode    == FirstFree(draws, TakenJoinCodes, NoJoinCode)
      workspaceId == nextId.workspaces
  IN  IF userId = NoUser THEN Throw("Unauthorized.")
      ELSE IF Len(name) < 3 \/ Len(name) > 20 THEN Throw("Invalid workspace name.")
      ELSE IF joinCode = NoJoinCode THEN Throw("TokenCollisionError")
      ELSE Return([workspaceId |-> workspaceId],
                  [workspaces |-> Insert(workspaces, workspaceId,
                                         [name |-> name, userId |-> userId,
                                          joinCode |-> joinCode]),
                   members |-> InsertMember(userId, workspaceId, "admin"),
                   channels |-> Insert(channels, nextId.channels,
                                       [name |-> "general", workspaceId |-> workspaceId]),
                   nextId |-> [nextId EXCEPT !.workspaces = @ + 1, !.members = @ + 1,
                                             !.channels = @ + 1]])

update(userId, id, name) ==
  IF userId = NoUser THEN Throw("Unauthorized.")
  ELSE IF ~\E m \in MemberRows(userId, id) : members[m].role = "admin"
    THEN Throw("Unauthorized.")
  ELSE IF Len(name) < 3 \/ Len(name) > 20 THEN Throw("Invalid workspace name.")
  ELSE Return(id, [workspaces |-> Patch(workspaces, id, [name |-> name], {})])

\* the rows of a table that do not belong to the workspace
WithoutWorkspace(table, workspaceId) ==
  [i \in {d \in DOMAIN table : table[d].workspaceId # workspaceId} |-> table[i]]

\* deletes the workspace with its members and channels; its Domain and InviteLink
\* rows stay
remove(userId, id) ==
  IF userId = NoUser THEN Throw("Unauthorized.")
  ELSE IF ~\E m \in MemberRows(userId, id) : members[m].role = "admin"
    THEN Throw("Unauthorized.")
  ELSE Return(id,
              [members |-> WithoutWorkspace(members, id),
               channels |-> WithoutWorkspace(channels, id),
               workspaces |-> Delete(workspaces, id)])

(***************************************************************************)
(* The state machine.  The deployment starts with one workspace that       *)
(* predates domain trust: its join code was generated lowercase and its    *)
(* domainVerified and joinCodeEnabled fields are unset.                    *)
(***************************************************************************)
LegacyJoinCode == <<"a","3","k","m","7","p">>

Init ==
  /\ workspaces = <<[name |-> "acme", userId |-> 1, joinCode |-> LegacyJoinCode]>>
  /\ members = <<[userId |-> 1, workspaceId |-> 1, role |-> "admin"]>>
  /\ channels = <<[name |-> "general", workspaceId |-> 1]>>
  /\ domains = <<>>
  /\ inviteLinks = <<>>
  /\ nextId = [workspaces |-> 2, members |-> 2, channels |-> 2,
               domains |-> 1, inviteLinks |-> 1]
  /\ now = HOUR_MS

WorkspaceIds == 1..MaxWorkspaces
DomainIds == 1..MaxDomains
InviteLinkIds == 1..MaxInvites

Names == {"ab", "team"}

RawDomains ==
  { <<"a",".","i","o">>,
    <<"W","W","W",".","A",".","i","o"," ">>,
    <<" ","w","w","w",".","a",".","i","o">>,
    <<"b",".","i","o">>,
    <<"a","-",".","i","o">> }

JoinCodeInputs == Range(JoinCodes) \cup {LegacyJoinCode}

Optional(field, values) == {<<>>} \cup {[f \in {field} |-> v] : v \in values}

JoinArgs ==
  {[workspaceId |-> w] @@ j @@ i :
     w \in WorkspaceIds,
     j \in Optional("joinCode", JoinCodeInputs),
     i \in Optional("inviteCode", Range(InviteCodes))}

Scopes == {[type |-> "workspace"], [type |-> "channel", channelId |-> 1]}

\* maxUses in halves: 0.5, 1, 1.5
MaxUsesInputs == {1, 2, 3}

ExpiresInHoursInputs == {0, 1, 2, 721, NaN}

InviteArgs ==
  {[workspaceId |-> w, expiresInHours |-> h, scope |-> s] @@ m :
     w \in WorkspaceIds, h \in ExpiresInHoursInputs, s \in Scopes,
     m \in Optional("maxUses", MaxUsesInputs)}

Create == \E u \in Callers, name \in Names, draws \in Draws(JoinCodes) :
            Commit(create(u, name, draws))

Join == \E u \in Callers, args \in JoinArgs : Commit(join(u, args))

NewJoinCode == \E u \in Callers, w \in WorkspaceIds, draws \in Draws(JoinCodes) :
                 Commit(newJoinCode(u, w, draws))

AddDomain == \E u \in Callers, w \in WorkspaceIds, raw \in RawDomains,
                draws \in Draws(VerificationTokens) :
               Commit(addDomain(u, w, raw, draws))

UpdateStatus == \E d \in DomainIds, status \in {"pending", "verified", "failed"},
                   verifiedAt \in Optional("verifiedAt", {now}) :
                  Commit(updateStatus(d, status, verifiedAt))

RemoveDomain == \E u \in Callers, d \in DomainIds : Commit(removeDomain(u, d))

InviteCreate == \E u \in Callers, args \in InviteArgs, draws \in Draws(InviteCodes) :
                  Commit(inviteCreate(u, args, draws))

Revoke == \E u \in Callers, i \in InviteLinkIds : Commit(revoke(u, i))

Remove == \E u \in Callers, w \in WorkspaceIds : Commit(remove(u, w))

\* Date.now() moves on between calls, here by two hours at a time
Tick ==
  /\ now < HOUR_MS + MaxTicks * (HOUR_MS + HOUR_MS)
  /\ now' = now + HOUR_MS + HOUR_MS
  /\ UNCHANGED <<workspaces, domains, inviteLinks, members, channels, nextId>>

\* the workspaces: create, newJoinCode and join by join code
Next ==
  \/ Create
  \/ NewJoinCode
  \/ Join

Spec == Init /\ [][Next]_vars

(***************************************************************************)
(* The Domain Registry.  carol has created a second workspace (create      *)
(* leads here from Init); then domains are added, checked and removed.     *)
(***************************************************************************)
InitTwo ==
  /\ workspaces = <<[name |-> "acme", userId |-> 1, joinCode |-> LegacyJoinCode],
                    [name |-> "team", userId |-> 3, joinCode |-> JoinCodes[1]]>>
  /\ members = <<[userId |-> 1, workspaceId |-> 1, role |-> "admin"],
                 [userId |-> 3, workspaceId |-> 2, role |-> "admin"]>>
  /\ channels = <<[name |-> "general", workspaceId |-> 1],
                  [name |-> "general", workspaceId |-> 2]>>
  /\ domains = <<>>
  /\ inviteLinks = <<>>
  /\ nextId = [workspaces |-> 3, members |-> 3, channels |-> 3,
               domains |-> 1, inviteLinks |-> 1]
  /\ now = HOUR_MS

NextDomains ==
  \/ AddDomain
  \/ UpdateStatus
  \/ RemoveDomain

SpecDomains == InitTwo /\ [][NextDomains]_vars

(***************************************************************************)
(* Redemption.  Both workspaces have verified a domain (addDomain and      *)
(* updateStatus lead here from InitTwo); then invite links are created,    *)
(* revoked and redeemed while the clock moves on.                          *)
(***************************************************************************)
InitVerified ==
  /\ workspaces = <<[name |-> "acme", userId |-> 1, joinCode |-> LegacyJoinCode,
                     domainVerified |-> TRUE, joinCodeEnabled |-> FALSE],
                    [name |-> "team", userId |-> 3, joinCode |-> JoinCodes[1],
                     domainVerified |-> TRUE, joinCodeEnabled |-> FALSE]>>
  /\ members = <<[userId |-> 1, workspaceId |-> 1, role |-> "admin"],
                 [userId |-> 3, workspaceId |-> 2, role |-> "admin"]>>
  /\ channels = <<[name |-> "general", workspaceId |-> 1],
                  [name |-> "general", workspaceId |-> 2]>>
  /\ domains = <<[workspaceId |-> 1, domain |-> <<"a",".","i","o">>,
                  verificationToken |-> VerificationTokens[1], status |-> "verified",
                  createdAt |-> HOUR_MS, createdBy |-> 1, verifiedAt |-> HOUR_MS],
                 [workspaceId |-> 2, domain |-> <<"b",".","i","o">>,
                  verificationToken |-> VerificationTokens[2], status |-> "verified",
                  createdAt |-> HOUR_MS, createdBy |-> 3, verifiedAt |-> HOUR_MS]>>
  /\ inviteLinks = <<>>
  /\ nextId = [workspaces |-> 3, members |-> 3, channels |-> 3,
               domains |-> 3, inviteLinks |-> 1]
  /\ now = HOUR_MS

NextInvites ==
  \/ InviteCreate
  \/ Revoke
  \/ Join
  \/ Remove
  \/ Tick

SpecInvites == InitVerified /\ [][NextInvites]_vars

(***************************************************************************)
(* Both ways in.  Only the first workspace has verified a domain; the      *)
(* second still takes its join code (create, addDomain and updateStatus    *)
(* lead here from Init).                                                   *)
(***************************************************************************)
InitMixed ==
  /\ workspaces = <<[name |-> "acme", userId |-> 1, joinCode |-> LegacyJoinCode,
                     domainVerified |-> TRUE, joinCodeEnabled |-> FALSE],
                    [name |-> "team", userId |-> 3, joinCode |-> JoinCodes[1]]>>
  /\ members = <<[userId |-> 1, workspaceId |-> 1, role |-> "admin"],
                 [userId |-> 3, workspaceId |-> 2, role |-> "admin"]>>
  /\ channels = <<[name |-> "general", workspaceId |-> 1],
                  [name |-> "general", workspaceId |-> 2]>>
  /\ domains = <<[workspaceId |-> 1, domain |-> <<"a",".","i","o">>,
                  verificationToken |-> VerificationTokens[1], status |-> "verified",
                  createdAt |-> HOUR_MS, createdBy |-> 1, verifiedAt |-> HOUR_MS]>>
  /\ inviteLinks = <<>>
  /\ nextId = [workspaces |-> 3, members |-> 3, channels |-> 3,
               domains |-> 2, inviteLinks |-> 1]
  /\ now = HOUR_MS

SpecJoin == InitMixed /\ [][NextInvites]_vars

(***************************************************************************)
(* Token generation: the four handlers that draw a token and retry on a    *)
(* collision, from the first workspace on.                                 *)
(***************************************************************************)
NextTokens ==
  \/ Create
  \/ NewJoinCode
  \/ AddDomain
  \/ InviteCreate

SpecTokens == Init /\ [][NextTokens]_vars

(***************************************************************************)
(* Properties.                                                             *)
(***************************************************************************)
\* the caller's email matches a verified domain of the workspace, as section 4.2
\* defines the match: the text after the sole '@' is a verified domain
EmailMatches(userId, workspaceId) ==
  /\ Has(users[userId], "email")
  /\ checkEmailDomain(workspaceId, users[userId].email).matches

\* a live link: not expired, not revoked, not exhausted
Live(invite) == ~Expired(invite) /\ ~Revoked(invite) /\ ~Exhausted(invite)

NonMember(userId, workspaceId) == MemberRows(userId, workspaceId) = {}

RedeemArgs(invite) == [workspaceId |-> invite.workspaceId, inviteCode |-> invite.code]

\* C1: every InviteLink row whose maxUses is set has usedCount <= maxUses
C1_UsedCountWithinMaxUses ==
  \A i \in DOMAIN inviteLinks :
    Has(inviteLinks[i], "maxUses") =>
      Halves(inviteLinks[i].usedCount) <= inviteLinks[i].maxUses

\* C2: of two joins by different non-members whose emails match no verified domain,
\* both with the code of one live link of a domain-verified workspace that has
\* maxUses = 1: taken from usedCount = 0, a call succeeds, adds one Member row and
\* leaves usedCount = 1; taken from usedCount = 1, a call is rejected with
\* 'Invite link has reached maximum uses.'
C2_ExactlyOneRedeems ==
  \A i \in DOMAIN inviteLinks : \A u \in UserIds :
    LET invite == inviteLinks[i]
        w      == invite.workspaceId
        call   == join(u, RedeemArgs(invite))
    IN  ( /\ w \in DOMAIN workspaces
          /\ DomainVerified(workspaces[w])
          /\ Has(invite, "maxUses") /\ invite.maxUses = Halves(1)
          /\ ~Expired(invite) /\ ~Revoked(invite)
          /\ NonMember(u, w)
          /\ ~EmailMatches(u, w) )
        => /\ invite.usedCount = 0 =>
                /\ call.ok
                /\ Has(call.writes, "inviteLinks")
                /\ call.writes.inviteLinks[i].usedCount = 1
                /\ Cardinality(DOMAIN call.writes.members) = Cardinality(DOMAIN members) + 1
           /\ invite.usedCount = 1 =>
                call = Throw("Invite link has reached maximum uses.")

\* C3: on a workspace with domainVerified = true a join succeeds only if the
\* caller's email matches a verified domain of the workspace or the call supplies
\* a live invite link of the workspace; a join code alone is always rejected
C3_VerifiedNeedsDomainOrInvite ==
  \A u \in UserIds, args \in JoinArgs :
    ( /\ args.workspaceId \in DOMAIN workspaces
      /\ DomainVerified(workspaces[args.workspaceId])
      /\ join(u, args).ok )
    => \/ EmailMatches(u, args.workspaceId)
       \/ /\ Supplied(args, "inviteCode", "")
          /\ \E i \in ByCode(args.inviteCode) :
               inviteLinks[i].workspaceId = args.workspaceId /\ Live(inviteLinks[i])

\* C4: a workspace with domainVerified = true has a Domain row with status 'verified'
C4_VerifiedFlagHasVerifiedRow ==
  \A w \in DOMAIN workspaces :
    DomainVerified(workspaces[w]) => VerifiedDomains(w) # {}

JoinCodesDisabled(workspace) == DomainVerified(workspace) /\ ~JoinCodeEnabled(workspace)

RowsOf(table, workspaceId) == {d \in DOMAIN table : table[d].workspaceId = workspaceId}

Admins(workspaceId) == {u \in UserIds : requireWorkspaceAdmin(u, workspaceId) = Ok}

\* C5 as stated: a workspace whose join codes a verification has disabled keeps
\* them disabled in every later state
C5_JoinCodesStayDisabled ==
  [][\A w \in DOMAIN workspaces :
       JoinCodesDisabled(workspaces[w]) => ~JoinCodeEnabled(workspaces'[w])]_vars

\* C5: once a verification has disabled a workspace's join codes, no join succeeds
\* through the join-code path while they are disabled, and joinCodeEnabled becomes
\* true again only in a step that deletes a Domain row of the workspace and leaves
\* it without a row of status 'verified'
C5_ReenabledOnlyByLastRemoval ==
  [][\A w \in DOMAIN workspaces :
       /\ ~JoinCodeEnabled(workspaces[w]) =>
            \A u \in UserIds, args \in JoinArgs :
              args.workspaceId = w => ~joinByCode(u, args).ok
       /\ (~JoinCodeEnabled(workspaces[w]) /\ JoinCodeEnabled(workspaces'[w])) =>
            /\ RowsOf(domains, w) \ DOMAIN domains' # {}
            /\ VerifiedDomains(w)' = {}
            /\ ~DomainVerified(workspaces'[w])]_vars

\* a verification has disabled the join codes of a workspace
C5_Witness ==
  \E d \in DOMAIN domains :
    /\ domains[d].status = "verified"
    /\ JoinCodesDisabled(workspaces[domains[d].workspaceId])
    /\ \A u \in UserIds, args \in JoinArgs :
         args.workspaceId = domains[d].workspaceId =>
           joinByCode(u, args) = Throw("Join codes are disabled for this workspace.")

\* C6: no two Domain rows hold the same normalized domain string, and an addDomain
\* whose normalized domain some row already holds is rejected
C6_DomainClaimedOnce ==
  /\ \A d1, d2 \in DOMAIN domains :
       domains[d1].domain = domains[d2].domain => d1 = d2
  /\ \A u \in Callers, w \in DOMAIN workspaces, raw \in RawDomains,
        draws \in Draws(VerificationTokens) :
       (\E d \in DOMAIN domains : domains[d].domain = normalizeDomain(raw))
         => ~addDomain(u, w, raw, draws).ok

\* one workspace holds a domain and the admin of another is refused it
C6_Witness ==
  \E d \in DOMAIN domains, w \in DOMAIN workspaces, raw \in RawDomains,
     draws \in Draws(VerificationTokens) :
    /\ domains[d].workspaceId # w
    /\ domains[d].domain = normalizeDomain(raw)
    /\ \E u \in Admins(w) :
         addDomain(u, w, raw, draws) = Throw("already claimed by another workspace")

\* C7: every stored Domain.domain is lowercase, has no leading or trailing
\* whitespace and does not begin with 'www.'
C7_StoredDomainNormalized ==
  \A d \in DOMAIN domains :
    LET domain == domains[d].domain
    IN  /\ toLowerCase(domain) = domain
        /\ trim(domain) = domain
        /\ stripWww(domain) = domain

\* C8: no two Member rows share a userId and a workspaceId
C8_OneMemberRowPerUserAndWorkspace ==
  \A m1, m2 \in DOMAIN members :
    ( /\ members[m1].userId = members[m2].userId
      /\ members[m1].workspaceId = members[m2].workspaceId ) => m1 = m2

\* a user who joined with the join code is refused a second join
C8_Witness ==
  \E m \in DOMAIN members :
    /\ members[m].role = "member"
    /\ join(members[m].userId,
            [workspaceId |-> members[m].workspaceId,
             joinCode |-> workspaces[members[m].workspaceId].joinCode])
         = Throw("Already a member of this workspace.")

\* C9: a step that deletes a Domain row sets the workspace's domainVerified to
\* false and joinCodeEnabled to true when no row of status 'verified' remains,
\* and leaves the workspace row as it was when one remains
C9_RemoveDomainRevertsFlags ==
  [][\A d \in DOMAIN domains \ DOMAIN domains', w \in DOMAIN workspaces :
       domains[d].workspaceId = w =>
         IF VerifiedDomains(w)' = {}
         THEN /\ Has(workspaces'[w], "domainVerified")
              /\ workspaces'[w].domainVerified = FALSE
              /\ Has(workspaces'[w], "joinCodeEnabled")
              /\ workspaces'[w].joinCodeEnabled = TRUE
         ELSE workspaces'[w] = workspaces[w]]_vars

\* a removal has left a workspace without Domain rows and reverted its flags
C9_Witness ==
  \E w \in DOMAIN workspaces :
    /\ Has(workspaces[w], "domainVerified") /\ ~workspaces[w].domainVerified
    /\ Has(workspaces[w], "joinCodeEnabled") /\ workspaces[w].joinCodeEnabled
    /\ RowsOf(domains, w) = {}
    /\ nextId.domains > 1

\* C10: a step that inserts a Domain row leaves it listed to the workspace's
\* admins with status 'pending'; a step that is updateStatus(d, 'verified', t)
\* leaves it listed with status 'verified' and verifiedAt = t, and the workspace
\* with domainVerified = true and joinCodeEnabled = false
C10_AddedPendingThenVerified ==
  [][/\ \A d \in DOMAIN domains' \ DOMAIN domains, w \in DOMAIN workspaces :
          domains'[d].workspaceId = w =>
            \A u \in Admins(w)' :
              \E r \in listDomains(u, w)'.value : r.id = d /\ r.status = "pending"
     /\ \A d \in DOMAIN domains, w \in DOMAIN workspaces, t \in {now} :
          ( /\ domains[d].workspaceId = w
            /\ domains' = Written(updateStatus(d, "verified", [verifiedAt |-> t]),
                                  "domains", domains)
            /\ workspaces' = Written(updateStatus(d, "verified", [verifiedAt |-> t]),
                                     "workspaces", workspaces)
            /\ <<domains', workspaces'>> # <<domains, workspaces>> )
          => /\ \A u \in Admins(w)' :
                  \E r \in listDomains(u, w)'.value :
                    /\ r.id = d /\ r.status = "verified"
                    /\ Has(r, "verifiedAt") /\ r.verifiedAt = t
             /\ DomainVerified(workspaces'[w])
             /\ ~JoinCodeEnabled(workspaces'[w])]_vars

\* an admin's listing shows a verified row of a workspace whose flags are set
C10_Witness ==
  \E d \in DOMAIN domains :
    LET w == domains[d].workspaceId
    IN  /\ Admins(w) # {}
        /\ \A u \in Admins(w) :
             \E r \in listDomains(u, w).value :
               /\ r.id = d /\ r.status = "verified"
               /\ Has(r, "verifiedAt") /\ r.verifiedAt = now
        /\ DomainVerified(workspaces[w])
        /\ ~JoinCodeEnabled(workspaces[w])

\* the link a successful revoke has stamped
WasRevoked(invite) == Has(invite, "revokedAt")

\* C11: a link that a revoke has stamped keeps its revokedAt in every later step;
\* every further revoke of it is rejected with 'Invite link is already revoked.'
\* when the caller is still an admin, getByCode answers null and
\* validateForRedemption answers valid:false for its code, and no join redeems it
C11_RevokedStaysDead ==
  /\ [](\A i \in DOMAIN inviteLinks :
          WasRevoked(inviteLinks[i]) =>
            /\ \A u \in Callers :
                 /\ ~revoke(u, i).ok
                 /\ u \in Admins(inviteLinks[i].workspaceId) =>
                      revoke(u, i) = Throw("Invite link is already revoked.")
            /\ getByCode(inviteLinks[i].code) = null
            /\ ~validateForRedemption(inviteLinks[i].code).valid
            /\ \A u \in Callers, args \in JoinArgs :
                 (Has(args, "inviteCode") /\ args.inviteCode = inviteLinks[i].code)
                   => ~(join(u, args).ok /\ Has(join(u, args).writes, "inviteLinks")))
  /\ [][\A i \in DOMAIN inviteLinks :
          WasRevoked(inviteLinks[i]) =>
            /\ i \in DOMAIN inviteLinks'
            /\ WasRevoked(inviteLinks'[i])
            /\ inviteLinks'[i].revokedAt = inviteLinks[i].revokedAt]_vars

\* a revoked link whose workspace still has an admin, at a later clock value than
\* its revocation and before its expiry
C11_Witness ==
  \E i \in DOMAIN inviteLinks :
    /\ WasRevoked(inviteLinks[i])
    /\ inviteLinks[i].revokedAt < now
    /\ ~Expired(inviteLinks[i])
    /\ ~Exhausted(inviteLinks[i])
    /\ Admins(inviteLinks[i].workspaceId) # {}

\* the first dead condition of a code, read off the rows
DeadCondition(code) ==
  IF \A i \in DOMAIN inviteLinks : inviteLinks[i].code # code THEN "not found"
  ELSE LET invite == inviteLinks[CHOOSE i \in DOMAIN inviteLinks : inviteLinks[i].code = code]
       IN  IF LessThan(invite.expiresAt, now) THEN "expired"
           ELSE IF Has(invite, "revokedAt") THEN "revoked"
           ELSE IF Has(invite, "maxUses") /\ Halves(invite.usedCount) >= invite.maxUses
             THEN "exhausted"
           ELSE IF invite.workspaceId \notin DOMAIN workspaces THEN "workspace missing"
           ELSE "live"

DeadErrors ==
  [c \in {"not found", "expired", "revoked", "exhausted", "workspace missing"} |->
     CASE c = "not found" -> "Invite link not found."
       [] c = "expired" -> "Invite link has expired."
       [] c = "revoked" -> "Invite link has been revoked."
       [] c = "exhausted" -> "Invite link has reached maximum uses."
       [] c = "workspace missing" -> "Workspace not found."]

\* C12: for every code, getByCode answers null exactly when validateForRedemption
\* answers valid:false, which is exactly when the code is not found, expired,
\* revoked, exhausted or its workspace is missing; validateForRedemption then
\* carries the error of that condition, the five errors being distinct
C12_NullIffInvalid ==
  /\ \A c1, c2 \in DOMAIN DeadErrors : DeadErrors[c1] = DeadErrors[c2] => c1 = c2
  /\ \A code \in Range(InviteCodes) :
       /\ (getByCode(code) = null) <=> ~validateForRedemption(code).valid
       /\ (getByCode(code) = null) <=> DeadCondition(code) # "live"
       /\ DeadCondition(code) # "live" =>
            validateForRedemption(code) =
              [valid |-> FALSE, error |-> DeadErrors[DeadCondition(code)]]

\* a link that is neither expired, revoked nor exhausted, and whose workspace has
\* been removed
C12_Witness ==
  \E i \in DOMAIN inviteLinks :
    /\ DeadCondition(inviteLinks[i].code) = "workspace missing"
    /\ getByCode(inviteLinks[i].code) = null
    /\ validateForRedemption(inviteLinks[i].code).error = "Workspace not found."

\* the Member rows a returning call inserts
InsertedMembers(call) ==
  IF Has(call.writes, "members")
  THEN {call.writes.members[m] : m \in DOMAIN call.writes.members \ DOMAIN members}
  ELSE {}

\* C13: on a domain-verified workspace W, for a non-member whose email matches no
\* verified domain of W, join with invite code c succeeds exactly when
\* validateForRedemption(c) is valid with workspaceId = W, and then raises the
\* link's usedCount by 1 and inserts one Member row, of role 'member'
C13_JoinIffValid ==
  \A u \in UserIds, args \in JoinArgs :
    ( /\ Has(args, "inviteCode")
      /\ args.workspaceId \in DOMAIN workspaces
      /\ DomainVerified(workspaces[args.workspaceId])
      /\ NonMember(u, args.workspaceId)
      /\ ~EmailMatches(u, args.workspaceId) )
    => LET call  == join(u, args)
           check == validateForRedemption(args.inviteCode)
       IN  /\ call.ok <=> (check.valid /\ check.workspaceId = args.workspaceId)
           /\ call.ok =>
                /\ Has(call.writes, "inviteLinks")
                /\ \A i \in ByCode(args.inviteCode) :
                     call.writes.inviteLinks[i].usedCount = inviteLinks[i].usedCount + 1
                /\ InsertedMembers(call) =
                     {[userId |-> u, workspaceId |-> args.workspaceId, role |-> "member"]}

\* C14: a join by a non-member whose email matches a verified domain of a
\* domain-verified workspace returns, inserts one Member row, of role 'member',
\* and writes no InviteLink row, whatever invite code the call carries
C14_AutoJoinConsumesNoInvite ==
  \A u \in UserIds, args \in JoinArgs :
    ( /\ args.workspaceId \in DOMAIN workspaces
      /\ DomainVerified(workspaces[args.workspaceId])
      /\ NonMember(u, args.workspaceId)
      /\ EmailMatches(u, args.workspaceId) )
    => LET call == join(u, args)
       IN  /\ call.ok
           /\ InsertedMembers(call) =
                {[userId |-> u, workspaceId |-> args.workspaceId, role |-> "member"]}
           /\ Written(call, "inviteLinks", inviteLinks) = inviteLinks

\* a matching non-member joins with the code of a live link of the workspace
C14_Witness ==
  \E i \in DOMAIN inviteLinks, u \in UserIds :
    LET invite == inviteLinks[i]
    IN  /\ invite.workspaceId \in DOMAIN workspaces
        /\ Live(invite)
        /\ NonMember(u, invite.workspaceId)
        /\ EmailMatches(u, invite.workspaceId)
        /\ join(u, RedeemArgs(invite)).ok
        /\ ~Has(join(u, RedeemArgs(invite)).writes, "inviteLinks")

\* what a call leaves in a table: a thrown mutation is rolled back
Effect(call, table, current) ==
  IF call.ok THEN Written(call, table, current) ELSE current

JoinErrors ==
  { "Unauthorized.", "User not found.", "Workspace not found.",
    "Already a member of this workspace.",
    "This workspace requires an invite link to join. Contact a workspace admin to get an invite.",
    "Invalid invite link.", "Invalid invite link for this workspace.",
    "Invite link has expired.", "Invite link has been revoked.",
    "Invite link has reached maximum uses.",
    "Join codes are disabled for this workspace.",
    "Join code is required.", "Invalid join code." }

\* C15: a join that is rejected carries one of join's errors and leaves the Member,
\* InviteLink and Workspace rows as they were; an unauthenticated call, a call on a
\* missing workspace and a call by a member of the workspace are rejected, the
\* last with 'Already a member of this workspace.' whatever code it carries
C15_RejectedJoinChangesNothing ==
  \A u \in Callers, args \in JoinArgs :
    LET call == join(u, args)
    IN  /\ ~call.ok =>
             /\ call.error \in JoinErrors
             /\ Effect(call, "members", members) = members
             /\ Effect(call, "inviteLinks", inviteLinks) = inviteLinks
             /\ Effect(call, "workspaces", workspaces) = workspaces
        /\ u = NoUser => call = Throw("Unauthorized.")
        /\ (u # NoUser /\ args.workspaceId \notin DOMAIN workspaces) =>
             call = Throw("Workspace not found.")
        /\ (u # NoUser /\ args.workspaceId \in DOMAIN workspaces
                       /\ ~NonMember(u, args.workspaceId)) =>
             /\ call = Throw("Already a member of this workspace.")
             /\ Effect(call, "inviteLinks", inviteLinks) = inviteLinks

\* a user who joined by invite is refused a second join that carries the code of
\* a live link of the workspace
C15_Witness ==
  \E i \in DOMAIN inviteLinks, m \in DOMAIN members :
    /\ Live(inviteLinks[i])
    /\ inviteLinks[i].usedCount >= 1
    /\ members[m].workspaceId = inviteLinks[i].workspaceId
    /\ members[m].role = "member"
    /\ join(members[m].userId, RedeemArgs(inviteLinks[i]))
         = Throw("Already a member of this workspace.")

\* two strings that differ at most in the case of their letters
EqualIgnoringCase(s, t) ==
  /\ Len(s) = Len(t)
  /\ \A k \in 1..Len(s) : LowerChar(s[k]) = LowerChar(t[k])

\* C16: on a workspace that is not domain-verified and has join codes enabled, a
\* join by a non-member with join code j returns exactly when j equals the
\* workspace's joinCode ignoring letter case, and then inserts one Member row, of
\* role 'member'
C16_JoinCodeIgnoresCase ==
  \A u \in UserIds, args \in JoinArgs :
    ( /\ Has(args, "joinCode")
      /\ args.workspaceId \in DOMAIN workspaces
      /\ ~DomainVerified(workspaces[args.workspaceId])
      /\ JoinCodeEnabled(workspaces[args.workspaceId])
      /\ NonMember(u, args.workspaceId) )
    => LET call == join(u, args)
       IN  /\ call.ok <=>
                EqualIgnoringCase(args.joinCode, workspaces[args.workspaceId].joinCode)
           /\ call.ok =>
                InsertedMembers(call) =
                  {[userId |-> u, workspaceId |-> args.workspaceId, role |-> "member"]}

\* a user has joined, and a non-member may join the workspace whose stored join
\* code is lowercase with the code typed in uppercase
C16_Witness ==
  /\ \E m \in DOMAIN members : members[m].role = "member"
  /\ \E u \in UserIds, w \in DOMAIN workspaces, j \in JoinCodeInputs :
       /\ NonMember(u, w)
       /\ workspaces[w].joinCode # j
       /\ EqualIgnoringCase(j, workspaces[w].joinCode)
       /\ join(u, [workspaceId |-> w, joinCode |-> j]).ok

\* C17: a non-member's join with a mismatched join code on an existing workspace
\* that takes join codes and the same call on a workspace id that does not exist
\* are rejected with the same outcome
C17_WrongCodeLikeMissingWorkspace ==
  \A u \in UserIds, w \in DOMAIN workspaces, missing \in WorkspaceIds \ DOMAIN workspaces,
     j \in JoinCodeInputs :
    ( /\ ~DomainVerified(workspaces[w])
      /\ JoinCodeEnabled(workspaces[w])
      /\ NonMember(u, w)
      /\ ~EqualIgnoringCase(j, workspaces[w].joinCode) )
    => /\ ~join(u, [workspaceId |-> w, joinCode |-> j]).ok
       /\ join(u, [workspaceId |-> w, joinCode |-> j])
            = join(u, [workspaceId |-> missing, joinCode |-> j])

\* candidate sequences of one call: k draws of one token, then another token
RetryDraws(pool) ==
  {[i \in 1..MAX_COLLISION_RETRIES |-> IF i <= k THEN c ELSE f] :
     k \in 0..MAX_COLLISION_RETRIES, c \in Range(pool), f \in Range(pool)}

AllCollide(draws, taken) == \A k \in DOMAIN draws : draws[k] \in taken

\* token is the first candidate without a match among the taken ones
FirstWithoutMatch(token, draws, taken) ==
  \E k \in DOMAIN draws :
    /\ draws[k] = token
    /\ draws[k] \notin taken
    /\ \A j \in 1..(k - 1) : draws[j] \in taken

\* a call that passes every check before the retry loop either fails with
\* TokenCollisionError, all candidates colliding, or stores the first candidate
\* without a match
RetryOutcome(call, stored, draws, taken) ==
  /\ Len(draws) = 5
  /\ IF AllCollide(draws, taken)
     THEN call = Throw("TokenCollisionError")
     ELSE call.ok /\ FirstWithoutMatch(stored, draws, taken)

\* arguments that pass the checks addDomain makes before its retry loop
NewValidDomain(raw) ==
  /\ isValidDomain(normalizeDomain(raw))
  /\ \A d \in DOMAIN domains : domains[d].domain # normalizeDomain(raw)

\* arguments that pass the checks inviteLinks.create makes before its retry loop
ValidInviteArgs(args) ==
  /\ ~LessThan(args.expiresInHours, 1) /\ ~GreaterThan(args.expiresInHours, 720)
  /\ Has(args, "maxUses") => args.maxUses >= Halves(1)
  /\ args.scope.type = "channel" =>
       /\ args.scope.channelId \in DOMAIN channels
       /\ channels[args.scope.channelId].workspaceId = args.workspaceId

VerificationTokensTaken == {domains[d].verificationToken : d \in DOMAIN domains}
InviteCodesTaken == {inviteLinks[i].code : i \in DOMAIN inviteLinks}

\* C18: addDomain, inviteLinks.create, workspaces.create and newJoinCode, called
\* with arguments that pass their other checks, store the first of their 5
\* candidates that has no exact match in the store, and throw TokenCollisionError,
\* writing nothing, exactly when all 5 candidates have a match
C18_FiveDrawsFirstFree ==
  /\ \A w \in DOMAIN workspaces, raw \in RawDomains :
       NewValidDomain(raw) => \A u \in Admins(w), draws \in RetryDraws(VerificationTokens) :
            LET call == addDomain(u, w, raw, draws)
            IN  RetryOutcome(call,
                             IF call.ok
                             THEN call.writes.domains[call.value].verificationToken
                             ELSE NoToken,
                             draws, VerificationTokensTaken)
  /\ \A args \in InviteArgs :
       ValidInviteArgs(args) => \A u \in Admins(args.workspaceId), draws \in RetryDraws(InviteCodes) :
            LET call == inviteCreate(u, args, draws)
            IN  RetryOutcome(call,
                             IF call.ok THEN call.writes.inviteLinks[call.value.id].code
                                        ELSE NoToken,
                             draws, InviteCodesTaken)
  /\ \A name \in Names :
       (Len(name) >= 3 /\ Len(name) <= 20)
       => \A u \in UserIds, draws \in RetryDraws(JoinCodes) :
            LET call == create(u, name, draws)
            IN  RetryOutcome(call,
                             IF call.ok
                             THEN call.writes.workspaces[call.value.workspaceId].joinCode
                             ELSE NoJoinCode,
                             draws, TakenJoinCodes)
  /\ \A w \in DOMAIN workspaces :
       \A u \in Admins(w), draws \in RetryDraws(JoinCodes) :
         LET call == newJoinCode(u, w, draws)
         IN  RetryOutcome(call,
                          IF call.ok THEN call.writes.workspaces[w].joinCode
                                     ELSE NoJoinCode,
                          draws, TakenJoinCodes)

\* every pool has a taken and a free token, so a call can collide on its first
\* four candidates and store the fifth, and can collide on all five
C18_Witness ==
  /\ \E t1, t2 \in Range(VerificationTokens) :
       t1 \in VerificationTokensTaken /\ t2 \notin VerificationTokensTaken
  /\ \E t1, t2 \in Range(InviteCodes) : t1 \in InviteCodesTaken /\ t2 \notin InviteCodesTaken
  /\ \E t1, t2 \in Range(JoinCodes) : t1 \in TakenJoinCodes /\ t2 \notin TakenJoinCodes
  /\ \E w \in DOMAIN workspaces : \E u \in Admins(w), draws \in RetryDraws(JoinCodes) :
       /\ draws[4] \in TakenJoinCodes
       /\ newJoinCode(u, w, draws).ok
  /\ \E w \in DOMAIN workspaces : \E u \in Admins(w), draws \in RetryDraws(JoinCodes) :
       newJoinCode(u, w, draws) = Throw("TokenCollisionError")

\* no two rows of the table carry the same value in the field
UniqueIn(table, field) ==
  \A r1, r2 \in DOMAIN table : table[r1][field] = table[r2][field] => r1 = r2

\* C19: no two InviteLink rows share a code and no two Domain rows share a
\* verificationToken, in the store and in the tables any successful addDomain or
\* inviteLinks.create leaves behind
C19_CodesAndTokensUnique ==
  /\ UniqueIn(inviteLinks, "code")
  /\ UniqueIn(domains, "verificationToken")
  /\ \A args \in InviteArgs :
       ValidInviteArgs(args) =>
         \A u \in Admins(args.workspaceId), draws \in RetryDraws(InviteCodes) :
           LET call == inviteCreate(u, args, draws)
           IN  call.ok => UniqueIn(call.writes.inviteLinks, "code")
  /\ \A w \in DOMAIN workspaces, raw \in RawDomains :
       NewValidDomain(raw) =>
         \A u \in Admins(w), draws \in RetryDraws(VerificationTokens) :
           LET call == addDomain(u, w, raw, draws)
           IN  call.ok => UniqueIn(call.writes.domains, "verificationToken")

\* two Domain rows stored after a collision on the first candidate, and a second
\* InviteLink row created by a call whose first candidate is the stored code
C19_Witness ==
  /\ Cardinality(DOMAIN domains) = 2
  /\ domains[2].verificationToken # VerificationTokens[1]
  /\ \E args \in InviteArgs :
       \E u \in Admins(args.workspaceId), draws \in RetryDraws(InviteCodes) :
         LET call == inviteCreate(u, args, draws)
         IN  /\ draws[1] \in InviteCodesTaken
             /\ call.ok
             /\ Cardinality(DOMAIN call.writes.inviteLinks) = 2

\* the values a Uint8Array element takes
Bytes == 0..255

\* results of randomBytes(6) in which every byte value occurs at every position
ByteSequences == {[i \in 1..codeLength |-> (b + 37 * i) % 256] : b \in Bytes}

\* the code is 6 characters long and its i-th character is the alphabet's
\* character at index byte_i mod 32
JoinCodeOfBytes(code, bytes) ==
  /\ Len(code) = 6
  /\ \A i \in 1..6 : code[i] = JOIN_CODE_ALPHABET[(bytes[i] % 32) + 1]

AlphabetContract ==
  /\ Len(JOIN_CODE_ALPHABET) = 32
  /\ Cardinality(Range(JOIN_CODE_ALPHABET)) = 32
  /\ \A b \in Bytes :
       joinCodeCharFromByte(b) = <<JOIN_CODE_ALPHABET[(b % 32) + 1]>>
  /\ \A bytes \in ByteSequences \cup Range(JoinCodeBytes) :
       JoinCodeOfBytes(generateJoinCode(bytes), bytes)

\* C20: for every 6 random bytes generateJoinCode returns exactly 6 characters,
\* the i-th being JOIN_CODE_ALPHABET[byte_i mod 32], the alphabet has exactly 32
\* distinct symbols, and every join code that create or newJoinCode stored is
\* such a code
C20_JoinCodeFromLowFiveBits ==
  /\ AlphabetContract
  /\ \A w \in DOMAIN workspaces :
       workspaces[w].joinCode # LegacyJoinCode =>
         \E k \in DOMAIN JoinCodeBytes :
           /\ workspaces[w].joinCode = generateJoinCode(JoinCodeBytes[k])
           /\ JoinCodeOfBytes(workspaces[w].joinCode, JoinCodeBytes[k])

\* a stored join code that generateJoinCode made of bytes above 31
C20_Witness ==
  \E w \in DOMAIN workspaces, k \in DOMAIN JoinCodeBytes :
    /\ workspaces[w].joinCode = generateJoinCode(JoinCodeBytes[k])
    /\ \E i \in 1..6 : JoinCodeBytes[k][i] > 31
    /\ JoinCodeOfBytes(workspaces[w].joinCode, JoinCodeBytes[k])

\* the characters the contract of generateJoinCode calls visually ambiguous
AmbiguousCharacters == {"O", "0", "I", "1", "L"}

\* C21: no join code that generateJoinCode returns, for any random bytes, and no
\* join code it gave to a stored workspace, holds one of O, 0, I, 1, L
C21_NoAmbiguousCharacter ==
  /\ \A bytes \in ByteSequences \cup Range(JoinCodeBytes) :
       Range(generateJoinCode(bytes)) \cap AmbiguousCharacters = {}
  /\ \A w \in DOMAIN workspaces :
       workspaces[w].joinCode # LegacyJoinCode =>
         Range(workspaces[w].joinCode) \cap AmbiguousCharacters = {}

\* the character class [A-Za-z0-9_-]
UrlSafeCharacters == (Range(BASE64_CHARS) \ {"+", "/"}) \cup {"-", "_"}

\* byte values at the edges of the 2-, 4- and 6-bit fields the encoder cuts
EdgeBytes == {0, 90, 255}

\* byte sequences of length 0 to 5 in which, position by position, every byte
\* value occurs next to the edge values
EncoderInputs ==
  {<<>>}
  \cup {<<x>> : x \in Bytes}
  \cup {<<x, y>> : x \in Bytes, y \in EdgeBytes}
  \cup {<<x, y>> : x \in EdgeBytes, y \in Bytes}
  \cup {<<x, y, z>> : x \in Bytes, y \in EdgeBytes, z \in EdgeBytes}
  \cup {<<x, y, z>> : x \in EdgeBytes, y \in Bytes, z \in EdgeBytes}
  \cup {<<x, y, z>> : x \in EdgeBytes, y \in EdgeBytes, z \in Bytes}
  \cup {<<x, y, z, x>> : x \in EdgeBytes, y \in EdgeBytes, z \in EdgeBytes}
  \cup {<<x, y, z, y, x>> : x \in EdgeBytes, y \in EdgeBytes, z \in EdgeBytes}

\* a token of the given length within [A-Za-z0-9_-]
UrlSafeOfLength(token, length) ==
  /\ Len(token) = length
  /\ Range(token) \subseteq UrlSafeCharacters

EncoderContract ==
  /\ \A bytes \in EncoderInputs : base64EncodeBytes(bytes, 0) = BufferToBase64(bytes)
  /\ \A b \in Bytes, hasBuffer \in BOOLEAN :
       /\ UrlSafeOfLength(generateVerificationToken(RandomBytes(24, b), hasBuffer), 32)
       /\ UrlSafeOfLength(generateInviteCode(RandomBytes(16, b), hasBuffer), 22)
  /\ \A b \in Bytes :
       /\ base64EncodeBytes(RandomBytes(24, b), 0) = BufferToBase64(RandomBytes(24, b))
       /\ base64EncodeBytes(RandomBytes(16, b), 0) = BufferToBase64(RandomBytes(16, b))

\* C22: generateVerificationToken returns 32 characters for 24 bytes and
\* generateInviteCode 22 characters for 16 bytes, all within [A-Za-z0-9_-], the
\* fallback encoder base64EncodeBytes agrees with standard base64, and every
\* stored verification token and invite code is such a token, the same on both
\* branches of base64urlEncode
C22_TokensUrlSafeFixedLength ==
  /\ EncoderContract
  /\ \A d \in DOMAIN domains :
       /\ UrlSafeOfLength(domains[d].verificationToken, 32)
       /\ \E k \in DOMAIN VerificationTokenBytes : \A hasBuffer \in BOOLEAN :
            domains[d].verificationToken =
              generateVerificationToken(VerificationTokenBytes[k], hasBuffer)
  /\ \A i \in DOMAIN inviteLinks :
       /\ UrlSafeOfLength(inviteLinks[i].code, 22)
       /\ \E k \in DOMAIN InviteCodeBytes : \A hasBuffer \in BOOLEAN :
            inviteLinks[i].code = generateInviteCode(InviteCodeBytes[k], hasBuffer)

\* a stored verification token holding '-' and '_', encoded from bytes whose
\* standard base64 holds '+' and '/', and a stored invite code whose padding
\* was stripped
C22_Witness ==
  /\ \E d \in DOMAIN domains :
       /\ {"-", "_"} \subseteq Range(domains[d].verificationToken)
       /\ {"+", "/"} \subseteq Range(base64EncodeBytes(VerificationTokenBytes[2], 0))
       /\ domains[d].verificationToken =
            generateVerificationToken(VerificationTokenBytes[2], FALSE)
  /\ \E i \in DOMAIN inviteLinks, k \in DOMAIN InviteCodeBytes :
       /\ inviteLinks[i].code = generateInviteCode(InviteCodeBytes[k], FALSE)
       /\ Len(base64EncodeBytes(InviteCodeBytes[k], 0)) = 24
       /\ Len(inviteLinks[i].code) = 22

\* 1 <= expiresInHours <= 720, maxUses absent or at least 1, and a channel-typed
\* scope naming a channel of the same workspace
WithinCreateLimits(args) ==
  /\ args.expiresInHours # NaN
  /\ 1 <= args.expiresInHours /\ args.expiresInHours <= 720
  /\ Has(args, "maxUses") => args.maxUses >= Halves(1)
  /\ args.scope.type = "channel" =>
       /\ args.scope.channelId \in DOMAIN channels
       /\ channels[args.scope.channelId].workspaceId = args.workspaceId

\* C23: inviteLinks.create inserts a row only for arguments within the limits,
\* and otherwise writes nothing; the inserted row has usedCount 0, no revokedAt,
\* expiresAt = createdAt + expiresInHours * 3,600,000 and, when channel-scoped,
\* a channel of its own workspace
C23_CreateValidatesArguments ==
  \A u \in Callers, args \in InviteArgs, draws \in Draws(InviteCodes) :
    LET call == inviteCreate(u, args, draws)
    IN  IF call.ok
        THEN /\ WithinCreateLimits(args)
             /\ DOMAIN call.writes.inviteLinks = DOMAIN inviteLinks \cup {call.value.id}
             /\ call.value.id \notin DOMAIN inviteLinks
             /\ LET row == call.writes.inviteLinks[call.value.id]
                IN  /\ row.usedCount = 0
                    /\ ~Has(row, "revokedAt")
                    /\ row.expiresAt = row.createdAt + args.expiresInHours * 3600000
                    /\ row.workspaceId = args.workspaceId
                    /\ row.scope.type = "channel" =>
                         /\ row.scope.channelId \in DOMAIN channels
                         /\ channels[row.scope.channelId].workspaceId = row.workspaceId
        ELSE /\ Effect(call, "inviteLinks", inviteLinks) = inviteLinks
             /\ ~WithinCreateLimits(args) \/ u \notin Admins(args.workspaceId)
                  \/ call = Throw("TokenCollisionError")

\* the caller is unauthenticated, or has no Member row of the workspace with
\* role 'admin'
NotAdmin(userId, workspaceId) ==
  \/ userId = NoUser
  \/ \A m \in DOMAIN members :
       (members[m].userId = userId /\ members[m].workspaceId = workspaceId)
         => members[m].role # "admin"

\* the call is rejected and no Domain, InviteLink, Workspace or Member row changes
RejectedWithoutEffect(call) ==
  /\ ~call.ok
  /\ Effect(call, "domains", domains) = domains
  /\ Effect(call, "inviteLinks", inviteLinks) = inviteLinks
  /\ Effect(call, "workspaces", workspaces) = workspaces
  /\ Effect(call, "members", members) = members

\* C24: addDomain, removeDomain, inviteLinks.create, inviteLinks.revoke and
\* newJoinCode, called by someone who is not an admin member of the owning
\* workspace, are rejected and change no Domain, InviteLink, Workspace or Member
\* row
C24_AdminOnly ==
  \A u \in Callers :
    /\ \A w \in DOMAIN workspaces :
         NotAdmin(u, w) =>
           /\ \A raw \in RawDomains, draws \in Draws(VerificationTokens) :
                RejectedWithoutEffect(addDomain(u, w, raw, draws))
           /\ \A draws \in Draws(JoinCodes) :
                RejectedWithoutEffect(newJoinCode(u, w, draws))
           /\ \A args \in InviteArgs, draws \in Draws(InviteCodes) :
                args.workspaceId = w => RejectedWithoutEffect(inviteCreate(u, args, draws))
    /\ \A d \in DOMAIN domains :
         NotAdmin(u, domains[d].workspaceId) => RejectedWithoutEffect(removeDomain(u, d))
    /\ \A i \in DOMAIN inviteLinks :
         NotAdmin(u, inviteLinks[i].workspaceId) => RejectedWithoutEffect(revoke(u, i))

\* a member with role 'member' of a workspace that has a Domain row and a live
\* InviteLink row, whose five calls are all rejected
C24_Witness ==
  \E m \in DOMAIN members, d \in DOMAIN domains, i \in DOMAIN inviteLinks :
    /\ members[m].role = "member"
    /\ domains[d].workspaceId = members[m].workspaceId
    /\ inviteLinks[i].workspaceId = members[m].workspaceId
    /\ ~Has(inviteLinks[i], "revokedAt")
    /\ ~removeDomain(members[m].userId, d).ok
    /\ ~revoke(members[m].userId, i).ok
    /\ \A draws \in Draws(JoinCodes) :
         ~newJoinCode(members[m].userId, members[m].workspaceId, draws).ok
    /\ removeDomain(workspaces[members[m].workspaceId].userId, d).ok
    /\ revoke(workspaces[members[m].workspaceId].userId, i).ok

\* the two flags of a Workspace row, each as written or unset
FlagsOf(workspace) ==
  [f \in {"domainVerified", "joinCodeEnabled"} \cap DOMAIN workspace |-> workspace[f]]

\* the call leaves the flags of every workspace as they are
KeepsFlags(call) ==
  \A w \in DOMAIN workspaces :
    /\ w \in DOMAIN Effect(call, "workspaces", workspaces)
    /\ FlagsOf(Effect(call, "workspaces", workspaces)[w]) = FlagsOf(workspaces[w])

\* C25: join, inviteLinks.create and inviteLinks.revoke, in every step they take
\* on a workspace that stays, and newJoinCode, update and addDomain, in every call, leave domainVerified and
\* joinCodeEnabled of every workspace as they are; workspaces.create inserts its
\* row with both unset, read as domainVerified = false and joinCodeEnabled = true;
\* updateStatus and removeDomain are the handlers that write them
C25_FlagsWrittenByDomainsOnly ==
  /\ [](\A u \in Callers :
          /\ \A w \in WorkspaceIds :
               /\ \A draws \in Draws(JoinCodes) : KeepsFlags(newJoinCode(u, w, draws))
               /\ \A name \in Names : KeepsFlags(update(u, w, name))
               /\ \A raw \in RawDomains, draws \in Draws(VerificationTokens) :
                    KeepsFlags(addDomain(u, w, raw, draws))
          /\ \A name \in Names, draws \in Draws(JoinCodes) :
               LET call == create(u, name, draws)
               IN  /\ KeepsFlags(call)
                   /\ call.ok =>
                        LET row == call.writes.workspaces[call.value.workspaceId]
                        IN  /\ FlagsOf(row) = <<>>
                            /\ ~DomainVerified(row)
                            /\ JoinCodeEnabled(row))
  /\ [][\A w \in DOMAIN workspaces :
          w \in DOMAIN workspaces' => FlagsOf(workspaces'[w]) = FlagsOf(workspaces[w])]_vars

\* a workspace with domainVerified = true and joinCodeEnabled = false that a
\* successful newJoinCode, update and join call leave so, beside a workspace
\* without the flags, while removeDomain does write them
C25_Witness ==
  /\ \E w \in DOMAIN workspaces : FlagsOf(workspaces[w]) = <<>>
  /\ \E w \in DOMAIN workspaces :
       /\ DomainVerified(workspaces[w]) /\ ~JoinCodeEnabled(workspaces[w])
       /\ \E u \in Callers :
            /\ \E draws \in Draws(JoinCodes) : newJoinCode(u, w, draws).ok
            /\ \E name \in Names : update(u, w, name).ok
       /\ \E u \in Callers, args \in JoinArgs :
            args.workspaceId = w /\ join(u, args).ok
       /\ \E m \in DOMAIN members : members[m].workspaceId = w /\ members[m].role = "member"
       /\ \E u \in Callers, d \in DOMAIN domains :
            /\ domains[d].workspaceId = w
            /\ removeDomain(u, d).ok
            /\ ~KeepsFlags(removeDomain(u, d))

\* C26: once a step has replaced the join code of a workspace on which the
\* join-code path applies, no join that supplies the previous code succeeds
C26_OldJoinCodeRejected ==
  [][\A w \in DOMAIN workspaces, previous \in JoinCodeInputs :
       ( /\ w \in DOMAIN workspaces'
         /\ workspaces[w].joinCode = previous
         /\ workspaces'[w].joinCode # previous
         /\ ~DomainVerified(workspaces[w])
         /\ JoinCodeEnabled(workspaces[w]) )
       => \A u \in Callers :
            ~(join(u, [workspaceId |-> w, joinCode |-> previous]).ok)']_vars

\* C27: in the token utilities whose alphabet omits the digit 0 the alphabet has
\* 32 characters, every random byte selects a character of it, and
\* generateJoinCode returns exactly 6 characters of that alphabet, also on the
\* random bytes behind the stored join codes
C27_VariantAlphabetHas32 ==
  /\ Len(JOIN_CODE_ALPHABET_WITHOUT_ZERO) = 32
  /\ \A b \in Bytes :
       /\ BitAnd(b, 31) + 1 \in DOMAIN JOIN_CODE_ALPHABET_WITHOUT_ZERO
       /\ Len(joinCodeCharFromByteWithoutZero(b)) = 1
       /\ Range(joinCodeCharFromByteWithoutZero(b))
            \subseteq Range(JOIN_CODE_ALPHABET_WITHOUT_ZERO)
  /\ \A bytes \in ByteSequences \cup Range(JoinCodeBytes) :
       /\ Len(generateJoinCodeWithoutZero(bytes)) = 6
       /\ Range(generateJoinCodeWithoutZero(bytes))
            \subseteq Range(JOIN_CODE_ALPHABET_WITHOUT_ZERO)
  /\ \A w \in DOMAIN workspaces, k \in DOMAIN JoinCodeBytes :
       workspaces[w].joinCode = generateJoinCode(JoinCodeBytes[k])
         => Len(generateJoinCodeWithoutZero(JoinCodeBytes[k])) = 6

\* C28: in every workspace joinCodeEnabled, unset read as true, is the negation
\* of domainVerified, unset read as false; the two fields are set together or
\* not at all; and no join call is rejected with 'Join codes are disabled for
\* this workspace.'
C28_JoinCodeEnabledIsNotDomainVerified ==
  /\ \A w \in DOMAIN workspaces :
       /\ JoinCodeEnabled(workspaces[w]) = ~DomainVerified(workspaces[w])
       /\ Has(workspaces[w], "domainVerified") <=> Has(workspaces[w], "joinCodeEnabled")
  /\ \A u \in Callers, args \in JoinArgs :
       join(u, args) # Throw("Join codes are disabled for this workspace.")

\* a workspace whose flags removeDomain has written back to false and true, on
\* which a join by join code succeeds, beside the flags true and false of a
\* verified workspace
C28_Witness ==
  /\ \E w \in DOMAIN workspaces :
       /\ Has(workspaces[w], "domainVerified") /\ ~workspaces[w].domainVerified
       /\ Has(workspaces[w], "joinCodeEnabled") /\ workspaces[w].joinCodeEnabled
       /\ \E u \in Callers, args \in JoinArgs :
            /\ args.workspaceId = w
            /\ Has(args, "joinCode")
            /\ join(u, args).ok
  /\ \E w \in DOMAIN workspaces :
       DomainVerified(workspaces[w]) /\ ~JoinCodeEnabled(workspaces[w])

\* C29: a workspace with at least one Domain row of status 'verified' has
\* domainVerified = true, and a non-member whose email matches such a row joins
\* it without a code
C29_VerifiedRowKeepsAutoJoin ==
  \A d \in DOMAIN domains :
    (domains[d].status = "verified" /\ domains[d].workspaceId \in DOMAIN workspaces)
    => /\ DomainVerified(workspaces[domains[d].workspaceId])
       /\ \A u \in UserIds :
            (EmailMatches(u, domains[d].workspaceId) /\ NonMember(u, domains[d].workspaceId))
            => join(u, [workspaceId |-> domains[d].workspaceId]).ok

\* a workspace with two verified rows: removing one of them leaves the flags as
\* they are, and a non-member with a matching email joins without a code
C29_Witness ==
  \E d \in DOMAIN domains, e \in DOMAIN domains :
    /\ d # e
    /\ domains[d].status = "verified" /\ domains[e].status = "verified"
    /\ domains[d].workspaceId = domains[e].workspaceId
    /\ DomainVerified(workspaces[domains[d].workspaceId])
    /\ \E u \in Callers :
         /\ removeDomain(u, e).ok
         /\ KeepsFlags(removeDomain(u, e))
    /\ \E u \in UserIds :
         /\ EmailMatches(u, domains[d].workspaceId)
         /\ NonMember(u, domains[d].workspaceId)
         /\ join(u, [workspaceId |-> domains[d].workspaceId]).ok

\* C30: on a domain-verified workspace a join without a code, by a non-member
\* with an email, succeeds by auto-join exactly when checkEmailDomain answers
\* matches: true for that email; an email without exactly one '@' never
\* auto-joins
C30_AutoJoinIffCheckEmailDomain ==
  \A w \in DOMAIN workspaces, u \in UserIds :
    (DomainVerified(workspaces[w]) /\ Has(users[u], "email") /\ NonMember(u, w))
    => /\ join(u, [workspaceId |-> w]).ok
            <=> checkEmailDomain(w, users[u].email).matches
       /\ Len(split(users[u].email, "@")) # 2 => ~join(u, [workspaceId |-> w]).ok

====
